---- MODULE Spec2Model ----
(***************************************************************************)
(* Model of green_cli's software signer (authenticators/wally.py) and of   *)
(* the session's wait-for-event pattern (session.py).                      *)
(*                                                                         *)
(* Byte strings are sequences of integers, hex strings are sequences of    *)
(* one-character strings, and the empty string '' is <<>>.  The results of *)
(* the cryptographic primitives of the wally library (hashes, signatures,  *)
(* commitments) are symbolic terms: a one-element byte string holding a    *)
(* record that names the primitive and its arguments.  The arithmetic of   *)
(* wally.asset_final_vbf is modelled concretely, over a small group order. *)
(***************************************************************************)
EXTENDS Integers, Sequences, FiniteSets, TLC

VARIABLES
    authenticator,      \* class chosen by get_authenticator: "btc" | "liquid"
    details,            \* the request passed to sign_message / sign_tx
    pc,                 \* position of the call
    tx_outs,            \* txdetails['transaction_outputs'], dicts mutated by blinding
    wally_tx,           \* the wally transaction structure built by tx_from_hex
    final_vbf_call,     \* arguments and outcome of the wally.asset_final_vbf call
    blind_retval,       \* value returned by _get_blinding_factors
    index,              \* loop index of _sign_tx (0-based, as enumerate)
    signatures,         \* local list of _sign_tx
    signer_commitments, \* local list of _sign_tx
    result,             \* what the caller receives
    latest_events,      \* Session.latest_events
    current_block_height, \* Session.current_block_height
    logged_in,          \* context.logged_in
    cv_owner,           \* holder of event_cv's lock (0: free)
    cv_waiters,         \* event_cv's queue of waiting threads
    tpc,                \* position of each thread calling getlatestevent
    twant,              \* event_type argument of each thread
    tret,               \* value returned by getlatestevent
    hpc,                \* position of the notification thread in callback_handler
    hevent,             \* the event callback_handler is handling
    delivered,          \* number of events delivered so far
    stored              \* history: every (event type, body) put in latest_events

signVars == <<authenticator, details, pc, tx_outs, wally_tx, final_vbf_call,
              blind_retval, index, signatures, signer_commitments, result>>
sessVars == <<latest_events, current_block_height, logged_in, cv_owner, cv_waiters,
              tpc, twant, tret, hpc, hevent, delivered, stored>>
vars == <<signVars, sessVars>>

----------------------------------------------------------------------------
(* Bounds of the model *)

MaxInputs == 2
MaxOutputs == 2
MaxUtxos == 2
NThreads == 2
MaxEvents == 2

(* Stand-ins for the 32-byte blinding factors and the secp256k1 group order *)
BFLen == 2
Order == 3

----------------------------------------------------------------------------
(* Python / byte-string helpers *)

Reverse(s) == [i \in 1..Len(s) |-> s[Len(s) + 1 - i]]

HexChars == <<"0","1","2","3","4","5","6","7","8","9","a","b","c","d","e","f">>

HexVal(c) == (CHOOSE i \in 1..16 : HexChars[i] = c) - 1

\* bytes.hex()
Hex(bytes) ==
    [i \in 1..(2 * Len(bytes)) |->
        IF i % 2 = 1 THEN HexChars[(bytes[(i + 1) \div 2] \div 16) + 1]
                     ELSE HexChars[(bytes[i \div 2] % 16) + 1]]

\* bytes.fromhex()
FromHex(h) ==
    [i \in 1..(Len(h) \div 2) |-> 16 * HexVal(h[2 * i - 1]) + HexVal(h[2 * i])]

\* .hex() of a symbolic byte string
SymHex(bytes) == <<[hex |-> bytes]>>

\* bytes.fromhex() of the hex of a symbolic byte string
SymFromHex(h) == h[1].hex

RECURSIVE Join(_)
\* b''.join(chunks)
Join(chunks) == IF chunks = <<>> THEN <<>> ELSE Head(chunks) \o Join(Tail(chunks))

SeqsUpTo(S, n) == UNION {[1..k -> S] : k \in 0..n}

\* big-endian value of a byte string
RECURSIVE BytesToInt(_)
BytesToInt(b) ==
    IF b = <<>> THEN 0 ELSE 256 * BytesToInt(SubSeq(b, 1, Len(b) - 1)) + b[Len(b)]

\* big-endian byte string of length BFLen
IntToBytes(n) == [i \in 1..BFLen |-> (n \div (256 ^ (BFLen - i))) % 256]

----------------------------------------------------------------------------
(* Program constants *)

SEGWIT_SCRIPT_TYPES == {14, 15, 159, 162}
WALLY_SIGHASH_ALL == 1
EC_FLAG_ECDSA == 1
EC_FLAG_GRIND_R == 4
TX_FLAG_USE_WITNESS == 1
TX_FLAG_USE_ELEMENTS == 2

----------------------------------------------------------------------------
(* Key derivation *)

master_key == [key |-> "master"]

derive_key(path) ==
    IF path = <<>> THEN master_key ELSE [key |-> "child", parent |-> master_key, path |-> path]

get_privkey(path) == [priv |-> derive_key(path)]

----------------------------------------------------------------------------
(* Signatures *)

ec_sig_from_bytes(privkey, hash, flags) ==
    [sig |-> "ec", privkey |-> privkey, hash |-> hash, flags |-> flags]

ae_signer_commit_from_bytes(privkey, hash, host_commitment, flags) ==
    <<[commit |-> "ae", privkey |-> privkey, hash |-> hash,
       host_commitment |-> host_commitment, flags |-> flags]>>

ae_sig_from_bytes(privkey, hash, host_entropy, flags) ==
    [sig |-> "ae", privkey |-> privkey, hash |-> hash,
     host_entropy |-> host_entropy, flags |-> flags]

ec_sig_to_der(signature) == <<[der |-> signature]>>

\* _make_ae_signature that commits, then falls back to a plain signature
_make_ae_signature_degraded(privkey, signing_hash, d) ==
    [signer_commitment |->
        ae_signer_commit_from_bytes(privkey, signing_hash,
                                    FromHex(d.ae_host_commitment), {EC_FLAG_ECDSA}),
     signature |->
        ec_sig_from_bytes(privkey, signing_hash, {EC_FLAG_ECDSA, EC_FLAG_GRIND_R})]

_make_ae_signature(privkey, signing_hash, d) ==
    [signer_commitment |->
        ae_signer_commit_from_bytes(privkey, signing_hash,
                                    FromHex(d.ae_host_commitment), {EC_FLAG_ECDSA}),
     signature |->
        ae_sig_from_bytes(privkey, signing_hash,
                          FromHex(d.ae_host_entropy), {EC_FLAG_ECDSA})]

format_bitcoin_message(message) == <<[msghash |-> message]>>

\* the dict returned by sign_message
sign_message(d) ==
    LET formatted == format_bitcoin_message(d.message)
        privkey == get_privkey(d.path)
        ae == _make_ae_signature(privkey, formatted, d)
    IN  IF d.use_ae_protocol
        THEN [keys |-> {"signer_commitment", "signature"},
              signer_commitment |-> SymHex(ae.signer_commitment),
              signature |-> SymHex(ec_sig_to_der(ae.signature))]
        ELSE [keys |-> {"signature"},
              signer_commitment |-> <<>>,
              signature |-> SymHex(ec_sig_to_der(
                  ec_sig_from_bytes(privkey, formatted, {EC_FLAG_ECDSA, EC_FLAG_GRIND_R})))]

----------------------------------------------------------------------------
(* Signature hashes *)

btc_get_sighash(tx, idx, utxo) ==
    <<[sighash |-> "btc", tx |-> tx, index |-> idx,
       script |-> FromHex(utxo.prevout_script), value |-> utxo.satoshi,
       sighash_type |-> WALLY_SIGHASH_ALL, flags |-> {TX_FLAG_USE_WITNESS}]>>

\* the explicit encoding of an amount: a 0x01 prefix, then the amount
tx_confidential_value_from_satoshi(satoshi) == <<1, satoshi>>

\* the sighash value taken from the amount whatever the confidential flag says
elements_sighash_value_explicit(utxo) == tx_confidential_value_from_satoshi(utxo.satoshi)

elements_sighash_value(utxo) ==
    IF utxo.confidential THEN FromHex(utxo.commitment)
    ELSE tx_confidential_value_from_satoshi(utxo.satoshi)

liquid_get_sighash(tx, idx, utxo) ==
    <<[sighash |-> "elements", tx |-> tx, index |-> idx,
       script |-> FromHex(utxo.prevout_script), value |-> elements_sighash_value(utxo),
       sighash_type |-> WALLY_SIGHASH_ALL, flags |-> {TX_FLAG_USE_WITNESS}]>>

\* _get_sighash that hashes every input at index 0
_get_sighash_first_index(auth, tx, idx, utxo) ==
    IF auth = "liquid" THEN liquid_get_sighash(tx, 0, utxo)
    ELSE btc_get_sighash(tx, 0, utxo)

\* self._get_sighash, dispatched on the authenticator's class
_get_sighash(auth, tx, idx, utxo) ==
    IF auth = "liquid" THEN liquid_get_sighash(tx, idx, utxo)
    ELSE btc_get_sighash(tx, idx, utxo)

\* is_segwit with a non-segwit script type let through
is_segwit_lenient(utxo) == utxo.script_type \in SEGWIT_SCRIPT_TYPES \cup {10}

is_segwit(utxo) == utxo.script_type \in SEGWIT_SCRIPT_TYPES

\* one input's signature as appended to signatures
tx_signature_hex(signature) ==
    SymHex(Append(ec_sig_to_der(signature), WALLY_SIGHASH_ALL))

----------------------------------------------------------------------------
(* Requests *)

Paths == <<<<>>, <<1>>, <<1, 2>>>>

\* a signing input; k tags every field so that two inputs of different k
\* differ in path, amount, script, commitment and AE parameters
MkInput(st, k, conf) ==
    [script_type |-> st, user_path |-> Paths[k], satoshi |-> k,
     prevout_script |-> Hex(<<80 + k>>), confidential |-> conf,
     commitment |-> Hex(<<8, k>>),
     ae_host_commitment |-> Hex(<<160 + k>>), ae_host_entropy |-> Hex(<<176 + k>>)]

\* script type 10 stands for the non-segwit types
InputPool == {MkInput(st, k, conf) : st \in {14, 10}, k \in 1..2, conf \in BOOLEAN}

\* a blinding factor in display order (hex of the reversed scalar bytes)
DisplayBF(n) == Hex(Reverse(IntToBytes(n)))

MkUtxo(sat, abf, vbf) ==
    [satoshi |-> sat, assetblinder |-> DisplayBF(abf), amountblinder |-> DisplayBF(vbf)]

\* the first n spent utxos, of alternating amounts and varying blinding factors
UtxoList(n) == [i \in 1..n |-> MkUtxo(1 + (i % 2), i % Order, (i + 1) % Order)]

ASSET_ID == Hex(<<10, 11>>)

\* a transaction output as the request gives it: no blinding keys yet
MkOutput(fee, sat) ==
    [is_fee |-> fee, satoshi |-> sat, asset_id |-> ASSET_ID, keys |-> {},
     wally_index |-> 0, assetblinder |-> <<>>, amountblinder |-> <<>>,
     asset_commitment |-> <<>>, value_commitment |-> <<>>]

OutputPool == {MkOutput(TRUE, 1), MkOutput(FALSE, 1), MkOutput(FALSE, 2)}

\* the serialized transaction: its outputs carry explicit asset and value
MkTxHex(outs) ==
    <<[tx |-> [i \in 1..Len(outs) |->
                  [asset |-> <<1>> \o FromHex(outs[i].asset_id),
                   value |-> tx_confidential_value_from_satoshi(outs[i].satoshi)]]]>>

MkTxDetails(outs, used, old) ==
    [transaction |-> MkTxHex(outs), transaction_outputs |-> outs,
     used_utxos |-> used, old_used_utxos |-> old]

NoTx == MkTxDetails(<<>>, <<>>, <<>>)

MkSignTx(ae, txd, inputs) ==
    [op |-> "sign_tx", use_ae_protocol |-> ae, transaction |-> txd,
     signing_inputs |-> inputs,
     message |-> "", path |-> <<>>, ae_host_commitment |-> <<>>, ae_host_entropy |-> <<>>]

MkSignMessage(ae, msg, path, k) ==
    [op |-> "sign_message", use_ae_protocol |-> ae, transaction |-> NoTx,
     signing_inputs |-> <<>>,
     message |-> msg, path |-> path,
     ae_host_commitment |-> Hex(<<160 + k>>), ae_host_entropy |-> Hex(<<176 + k>>)]

MessageRequests ==
    {MkSignMessage(ae, msg, Paths[p], k) :
        ae \in BOOLEAN, msg \in {"hello", "bye"}, p \in 1..3, k \in 1..2}

\* requests that vary the signing inputs, over one small transaction
FixedTx == MkTxDetails(<<MkOutput(FALSE, 2), MkOutput(TRUE, 1)>>,
                       <<MkUtxo(1, 1, 0), MkUtxo(2, 2, 1)>>, <<>>)

SigningRequests ==
    {MkSignTx(ae, FixedTx, ins) : ae \in BOOLEAN, ins \in SeqsUpTo(InputPool, MaxInputs)}

\* requests that vary the outputs and the spent utxos, over one fixed input
FixedInputs == <<MkInput(162, 2, TRUE)>>

\* used_utxos and old_used_utxos: either the used utxos, or only the old ones
UtxoChoices ==
    {<<UtxoList(n), <<>>>> : n \in 0..MaxUtxos} \cup {<<<<>>, <<MkUtxo(2, 1, 2)>>>>}

BlindingRequests ==
    {MkSignTx(FALSE, MkTxDetails(outs, u[1], u[2]), FixedInputs) :
        outs \in SeqsUpTo(OutputPool, MaxOutputs), u \in UtxoChoices}

----------------------------------------------------------------------------
(* Blinding *)

tx_from_hex(hex, flags) == [outputs |-> hex[1].tx, flags |-> flags]

tx_set_output_asset(tx, idx, commitment) ==
    [tx EXCEPT !.outputs[idx + 1].asset = commitment]

tx_set_output_value(tx, idx, commitment) ==
    [tx EXCEPT !.outputs[idx + 1].value = commitment]

asset_generator_from_bytes(asset, abf) == <<[generator |-> asset, abf |-> abf]>>

asset_value_commitment(satoshi, vbf, generator) ==
    <<[commitment |-> satoshi, vbf |-> vbf, generator |-> generator]>>

\* the bytes os.urandom returns, restricted to the display-order encodings of
\* the scalars below the group order (the library rejects any other factor)
RandomBytes == {Reverse(IntToBytes(n)) : n \in 0..(Order - 1)}

Chunk(b, i) == SubSeq(b, (i - 1) * BFLen + 1, i * BFLen)

RECURSIVE SumTo(_, _)
SumTo(f, n) == IF n = 0 THEN 0 ELSE f[n] + SumTo(f, n - 1)

\* wally.asset_final_vbf: the value blinding factor of the last endpoint that
\* balances sum(value * abf + vbf) of the inputs against that of the outputs;
\* fails on malformed arguments and on a blinding factor outside the group
asset_final_vbf(values, num_inputs, abfs, vbfs) ==
    LET n == Len(values)
        wellformed == /\ n >= 2
                      /\ num_inputs < n
                      /\ Len(abfs) = n * BFLen
                      /\ Len(vbfs) = (n - 1) * BFLen
        abf(i) == BytesToInt(Chunk(abfs, i))
        vbf(i) == BytesToInt(Chunk(vbfs, i))
        inrange == /\ \A i \in 1..n : abf(i) < Order
                   /\ \A i \in 1..(n - 1) : vbf(i) < Order
        term == [i \in 1..n |->
                    (IF i <= num_inputs THEN 1 ELSE -1)
                      * (values[i] * abf(i) + (IF i < n THEN vbf(i) ELSE 0))]
    IN  IF wellformed /\ inrange
        THEN [ok |-> TRUE, vbf |-> IntToBytes(SumTo(term, n) % Order)]
        ELSE [ok |-> FALSE, vbf |-> <<>>]

\* utxos = txdetails['used_utxos'] or txdetails['old_used_utxos']
blinding_utxos(txd) ==
    IF txd.used_utxos # <<>> THEN txd.used_utxos ELSE txd.old_used_utxos

\* wally_index counted within the non-fee outputs only
set_wally_index_blinded_order(outs) ==
    [i \in 1..Len(outs) |->
        [outs[i] EXCEPT !.wally_index = Cardinality({j \in 1..(i - 1) : ~outs[j].is_fee}),
                        !.keys = @ \cup {"wally_index"}]]

\* o['wally_index'] = i for every output
set_wally_index(outs) ==
    [i \in 1..Len(outs) |->
        [outs[i] EXCEPT !.wally_index = i - 1, !.keys = @ \cup {"wally_index"}]]

RECURSIVE blinded_outputs_from(_, _)
blinded_outputs_from(outs, i) ==
    IF i > Len(outs) THEN <<>>
    ELSE (IF outs[i].is_fee THEN <<>> ELSE <<i>>) \o blinded_outputs_from(outs, i + 1)

\* blinded_outputs: the positions in transaction_outputs of the non-fee outputs
\* (the list holds references to the same dicts)
blinded_outputs(outs) == blinded_outputs_from(outs, 1)

\* the arguments _get_blinding_factors passes to wally.asset_final_vbf
final_vbf_args(utxos, outs) ==
    LET blinded == blinded_outputs(outs)
        endpoints == utxos \o [j \in 1..Len(blinded) |-> outs[blinded[j]]]
        butlast == SubSeq(endpoints, 1, Len(endpoints) - 1)
    IN  [values |-> [e \in 1..Len(endpoints) |-> endpoints[e].satoshi],
         num_inputs |-> Len(utxos),
         abfs |-> Join([e \in 1..Len(endpoints) |->
                          Reverse(FromHex(endpoints[e].assetblinder))]),
         vbfs |-> Join([e \in 1..Len(butlast) |->
                          Reverse(FromHex(butlast[e].amountblinder))]),
         vbf_endpoints |-> Len(butlast)]

\* output['assetblinder'], output['amountblinder'] = os.urandom(32).hex(), for
\* the j-th blinded output the j-th pair of draws
draw_blinders(outs, draw) ==
    LET blinded == blinded_outputs(outs)
        nth(i) == CHOOSE j \in 1..Len(blinded) : blinded[j] = i
    IN  [i \in 1..Len(outs) |->
            IF outs[i].is_fee THEN outs[i]
            ELSE [outs[i] EXCEPT !.assetblinder = Hex(draw[nth(i)][1]),
                                 !.amountblinder = Hex(draw[nth(i)][2]),
                                 !.keys = @ \cup {"assetblinder", "amountblinder"}]]

\* the final factor stored in the first blinded output instead of the last
set_final_vbf_first(outs, final_vbf) ==
    LET blinded == blinded_outputs(outs)
    IN  [outs EXCEPT ![blinded[1]].amountblinder = Hex(Reverse(final_vbf))]

\* blinded_outputs[-1]['amountblinder'] = final_vbf[::-1].hex()
set_final_vbf(outs, final_vbf) ==
    LET blinded == blinded_outputs(outs)
        last == blinded[Len(blinded)]
    IN  [outs EXCEPT ![last].amountblinder = Hex(Reverse(final_vbf))]

\* the commitments of one blinded output stored in its dict
commit_output(o) ==
    LET asset_commitment ==
            asset_generator_from_bytes(Reverse(FromHex(o.asset_id)),
                                       Reverse(FromHex(o.assetblinder)))
        value_commitment ==
            asset_value_commitment(o.satoshi, Reverse(FromHex(o.amountblinder)),
                                   asset_commitment)
    IN  [o EXCEPT !.asset_commitment = SymHex(asset_commitment),
                  !.value_commitment = SymHex(value_commitment),
                  !.keys = @ \cup {"asset_commitment", "value_commitment"}]

\* the dicts after the commitment loop
commit_outputs(outs) ==
    [i \in 1..Len(outs) |-> IF outs[i].is_fee THEN outs[i] ELSE commit_output(outs[i])]

\* the commitment loop without its writes into the wally tx
write_commitments_skipped(tx, outs, blinded) == tx

RECURSIVE write_commitments(_, _, _)
\* the commitment loop's writes into the wally tx, in blinded_outputs order
write_commitments(tx, outs, blinded) ==
    IF blinded = <<>> THEN tx
    ELSE LET o == outs[Head(blinded)]
             tx1 == tx_set_output_asset(tx, o.wally_index,
                                        SymFromHex(o.asset_commitment))
             tx2 == tx_set_output_value(tx1, o.wally_index,
                                        SymFromHex(o.value_commitment))
         IN  write_commitments(tx2, outs, Tail(blinded))

\* o.get(key, '')
get(o, key) ==
    IF key \notin o.keys THEN <<>>
    ELSE CASE key = "assetblinder" -> o.assetblinder
           [] key = "amountblinder" -> o.amountblinder
           [] key = "asset_commitment" -> o.asset_commitment
           [] key = "value_commitment" -> o.value_commitment

\* retval built over the blinded outputs only, without the fee output's entries
blinding_retval_blinded_only(outs) ==
    LET b == blinded_outputs(outs)
    IN  [assetblinders |-> [j \in 1..Len(b) |-> get(outs[b[j]], "assetblinder")],
         amountblinders |-> [j \in 1..Len(b) |-> get(outs[b[j]], "amountblinder")],
         asset_commitments |-> [j \in 1..Len(b) |-> get(outs[b[j]], "asset_commitment")],
         value_commitments |-> [j \in 1..Len(b) |-> get(outs[b[j]], "value_commitment")]]

\* retval of _get_blinding_factors
blinding_retval(outs) ==
    [assetblinders |-> [i \in 1..Len(outs) |-> get(outs[i], "assetblinder")],
     amountblinders |-> [i \in 1..Len(outs) |-> get(outs[i], "amountblinder")],
     asset_commitments |-> [i \in 1..Len(outs) |-> get(outs[i], "asset_commitment")],
     value_commitments |-> [i \in 1..Len(outs) |-> get(outs[i], "value_commitment")]]

NoBlinding ==
    [assetblinders |-> <<>>, amountblinders |-> <<>>,
     asset_commitments |-> <<>>, value_commitments |-> <<>>]

BLINDING_KEYS == {"assetblinders", "amountblinders", "asset_commitments", "value_commitments"}

----------------------------------------------------------------------------
(* The signer's calls *)

NoCall == [made |-> FALSE, ok |-> FALSE, values |-> <<>>, num_inputs |-> 0,
           abfs |-> <<>>, vbfs |-> <<>>, vbf_endpoints |-> 0, final_vbf |-> <<>>]

NoResult ==
    [status |-> "none", keys |-> {}, signature |-> <<>>, signer_commitment |-> <<>>,
     signatures |-> <<>>, signer_commitments |-> <<>>, blinding |-> NoBlinding]

Raised(exception) == [NoResult EXCEPT !.status = exception]

Requests == MessageRequests \cup SigningRequests \cup BlindingRequests

SessIdle ==
    /\ latest_events = [t \in {} |-> 0]
    /\ current_block_height = 0
    /\ logged_in = TRUE
    /\ cv_owner = 0
    /\ cv_waiters = <<>>
    /\ tpc = <<>>
    /\ twant = <<>>
    /\ tret = <<>>
    /\ hpc = "idle"
    /\ hevent = <<>>
    /\ delivered = 0
    /\ stored = {}

Init ==
    /\ details \in Requests
    /\ authenticator \in (IF details \in BlindingRequests THEN {"liquid"} ELSE {"btc", "liquid"})
    /\ pc = "call"
    /\ tx_outs = details.transaction.transaction_outputs
    /\ wally_tx = [outputs |-> <<>>, flags |-> {}]
    /\ final_vbf_call = NoCall
    /\ blind_retval = NoBlinding
    /\ index = 0
    /\ signatures = <<>>
    /\ signer_commitments = <<>>
    /\ result = NoResult
    /\ SessIdle

\* sign_message, for either authenticator
SignMessage ==
    /\ pc = "call"
    /\ details.op = "sign_message"
    /\ LET r == sign_message(details)
       IN  result' = [NoResult EXCEPT !.status = "returned", !.keys = r.keys,
                                      !.signature = r.signature,
                                      !.signer_commitment = r.signer_commitment]
    /\ pc' = "returned"
    /\ UNCHANGED <<authenticator, details, tx_outs, wally_tx, final_vbf_call,
                   blind_retval, index, signatures, signer_commitments>>
    /\ UNCHANGED sessVars

\* WallyAuthenticator.sign_tx up to the call of _sign_tx
BtcSignTx ==
    /\ pc = "call"
    /\ details.op = "sign_tx"
    /\ authenticator = "btc"
    /\ wally_tx' = tx_from_hex(details.transaction.transaction, {TX_FLAG_USE_WITNESS})
    /\ pc' = "sign"
    /\ UNCHANGED <<authenticator, details, tx_outs, final_vbf_call, blind_retval,
                   index, signatures, signer_commitments, result>>
    /\ UNCHANGED sessVars

\* WallyAuthenticatorLiquid.sign_tx up to the random draws of _get_blinding_factors
LiquidSignTx ==
    /\ pc = "call"
    /\ details.op = "sign_tx"
    /\ authenticator = "liquid"
    /\ wally_tx' = tx_from_hex(details.transaction.transaction,
                               {TX_FLAG_USE_WITNESS, TX_FLAG_USE_ELEMENTS})
    /\ \E outs \in {set_wally_index(tx_outs)} :
           \E draw \in [1..Len(blinded_outputs(outs)) -> RandomBytes \X RandomBytes] :
             tx_outs' = draw_blinders(outs, draw)
    /\ pc' = "balance"
    /\ UNCHANGED <<authenticator, details, final_vbf_call, blind_retval,
                   index, signatures, signer_commitments, result>>
    /\ UNCHANGED sessVars

\* _get_blinding_factors: the balancing call and the last output's factor
BlindBalance ==
    /\ pc = "balance"
    /\ \E a \in {final_vbf_args(blinding_utxos(details.transaction), tx_outs)} :
       \E r \in {asset_final_vbf(a.values, a.num_inputs, a.abfs, a.vbfs)} :
           /\ final_vbf_call' = [made |-> TRUE, ok |-> r.ok, values |-> a.values,
                                 num_inputs |-> a.num_inputs, abfs |-> a.abfs,
                                 vbfs |-> a.vbfs, vbf_endpoints |-> a.vbf_endpoints,
                                 final_vbf |-> r.vbf]
           /\ IF ~r.ok
              THEN /\ pc' = "raised"
                   /\ result' = Raised("ValueError")
                   /\ UNCHANGED tx_outs
              ELSE IF blinded_outputs(tx_outs) = <<>>
              THEN /\ pc' = "raised"
                   /\ result' = Raised("IndexError")
                   /\ UNCHANGED tx_outs
              ELSE /\ pc' = "commit"
                   /\ tx_outs' = set_final_vbf(tx_outs, r.vbf)
                   /\ UNCHANGED result
    /\ UNCHANGED <<authenticator, details, wally_tx, blind_retval,
                   index, signatures, signer_commitments>>
    /\ UNCHANGED sessVars

\* _get_blinding_factors: the commitment loop and the returned lists
BlindCommit ==
    /\ pc = "commit"
    /\ \E outs \in {commit_outputs(tx_outs)} :
           /\ tx_outs' = outs
           /\ wally_tx' = write_commitments(wally_tx, outs, blinded_outputs(outs))
           /\ blind_retval' = blinding_retval(outs)
    /\ pc' = "sign"
    /\ UNCHANGED <<authenticator, details, final_vbf_call,
                   index, signatures, signer_commitments, result>>
    /\ UNCHANGED sessVars

\* one iteration of the loop of _sign_tx
SignInput ==
    /\ pc = "sign"
    /\ index < Len(details.signing_inputs)
    /\ LET utxo == details.signing_inputs[index + 1]
           txhash == _get_sighash(authenticator, wally_tx, index, utxo)
           privkey == get_privkey(utxo.user_path)
           ae == _make_ae_signature(privkey, txhash, utxo)
       IN  IF ~is_segwit(utxo)
           THEN /\ pc' = "raised"
                /\ result' = Raised("NotImplementedError")
                /\ UNCHANGED <<index, signatures, signer_commitments>>
           ELSE /\ IF details.use_ae_protocol
                   THEN /\ signer_commitments' =
                              Append(signer_commitments, SymHex(ae.signer_commitment))
                        /\ signatures' = Append(signatures, tx_signature_hex(ae.signature))
                   ELSE /\ signatures' =
                              Append(signatures, tx_signature_hex(
                                  ec_sig_from_bytes(privkey, txhash,
                                                    {EC_FLAG_ECDSA, EC_FLAG_GRIND_R})))
                        /\ UNCHANGED signer_commitments
                /\ index' = index + 1
                /\ UNCHANGED <<pc, result>>
    /\ UNCHANGED <<authenticator, details, tx_outs, wally_tx, final_vbf_call, blind_retval>>
    /\ UNCHANGED sessVars

\* the end of _sign_tx and of sign_tx: the dict handed to json.dumps
SignReturn ==
    /\ pc = "sign"
    /\ index = Len(details.signing_inputs)
    /\ result' = [NoResult EXCEPT
                    !.status = "returned",
                    !.keys = {"signatures"}
                               \cup (IF details.use_ae_protocol
                                     THEN {"signer_commitments"} ELSE {})
                               \cup (IF authenticator = "liquid"
                                     THEN BLINDING_KEYS ELSE {}),
                    !.signatures = signatures,
                    !.signer_commitments =
                        IF details.use_ae_protocol THEN signer_commitments ELSE <<>>,
                    !.blinding = blind_retval]
    /\ pc' = "returned"
    /\ UNCHANGED <<authenticator, details, tx_outs, wally_tx, final_vbf_call,
                   blind_retval, index, signatures, signer_commitments>>
    /\ UNCHANGED sessVars

Next ==
    \/ SignMessage
    \/ BtcSignTx
    \/ LiquidSignTx
    \/ BlindBalance
    \/ BlindCommit
    \/ SignInput
    \/ SignReturn

Spec == Init /\ [][Next]_vars

----------------------------------------------------------------------------
(* The session's events *)

Threads == 1..NThreads

EventTypes == {"block", "network"}

MkBody(login_required, has_height, height) ==
    [login_required |-> login_required, has_block_height |-> has_height,
     block_height |-> height]

MkEvent(t, body) == [event |-> t, body |-> body]

\* the events delivered to callback_handler; a block event may lack block_height
Events ==
    {MkEvent("block", MkBody(FALSE, TRUE, h)) : h \in 1..MaxEvents}
      \cup {MkEvent("block", MkBody(FALSE, FALSE, 0))}
      \cup {MkEvent("network", MkBody(l, FALSE, 0)) : l \in BOOLEAN}

NoEvent == MkEvent("none", MkBody(FALSE, FALSE, 0))

\* self.latest_events[event_type] = event_body
store_event(events, t, body) ==
    [x \in (DOMAIN events) \cup {t} |-> IF x = t THEN body ELSE events[x]]

\* the try block of callback_handler raises KeyError on a block event without
\* block_height, before the event is stored
handler_raises(e) == e.event = "block" /\ ~e.body.has_block_height

SignIdle ==
    /\ details = MkSignMessage(FALSE, "hello", <<>>, 1)
    /\ authenticator = "btc"
    /\ pc = "idle"
    /\ tx_outs = <<>>
    /\ wally_tx = [outputs |-> <<>>, flags |-> {}]
    /\ final_vbf_call = NoCall
    /\ blind_retval = NoBlinding
    /\ index = 0
    /\ signatures = <<>>
    /\ signer_commitments = <<>>
    /\ result = NoResult

SessInit ==
    /\ latest_events = [t \in {} |-> NoEvent.body]
    /\ current_block_height = 0
    /\ logged_in = TRUE
    /\ cv_owner = 0
    /\ cv_waiters = <<>>
    /\ tpc = [th \in Threads |-> "idle"]
    /\ twant = [th \in Threads |-> "none"]
    /\ tret = [th \in Threads |-> NoEvent.body]
    /\ hpc = "idle"
    /\ hevent = NoEvent
    /\ delivered = 0
    /\ stored = {}
    /\ SignIdle

\* a thread calls getlatestevent(t)
Call(th, t) ==
    /\ tpc[th] = "idle"
    /\ tpc' = [tpc EXCEPT ![th] = "acquire"]
    /\ twant' = [twant EXCEPT ![th] = t]
    /\ UNCHANGED <<latest_events, current_block_height, logged_in, cv_owner, cv_waiters,
                   tret, hpc, hevent, delivered, stored>>
    /\ UNCHANGED signVars

\* with self.event_cv: the thread takes the condition's lock
Acquire(th) ==
    /\ tpc[th] = "acquire"
    /\ cv_owner = 0
    /\ cv_owner' = th
    /\ tpc' = [tpc EXCEPT ![th] = "check"]
    /\ UNCHANGED <<latest_events, current_block_height, logged_in, cv_waiters,
                   twant, tret, hpc, hevent, delivered, stored>>
    /\ UNCHANGED signVars

\* wait_for: the predicate is tested under the lock; when it is false the thread
\* joins the waiters and releases the lock, when it is true it leaves the with block
WaitFor(th) ==
    /\ tpc[th] = "check"
    /\ cv_owner = th
    /\ cv_owner' = 0
    /\ IF twant[th] \in DOMAIN latest_events
       THEN /\ tpc' = [tpc EXCEPT ![th] = "read"]
            /\ UNCHANGED cv_waiters
       ELSE /\ tpc' = [tpc EXCEPT ![th] = "waiting"]
            /\ cv_waiters' = Append(cv_waiters, th)
    /\ UNCHANGED <<latest_events, current_block_height, logged_in,
                   twant, tret, hpc, hevent, delivered, stored>>
    /\ UNCHANGED signVars

\* a notified thread takes the lock again and tests the predicate again
Wake(th) ==
    /\ tpc[th] = "notified"
    /\ cv_owner = 0
    /\ cv_owner' = th
    /\ tpc' = [tpc EXCEPT ![th] = "check"]
    /\ UNCHANGED <<latest_events, current_block_height, logged_in, cv_waiters,
                   twant, tret, hpc, hevent, delivered, stored>>
    /\ UNCHANGED signVars

\* return self.latest_events[event_type]
Return(th) ==
    /\ tpc[th] = "read"
    /\ tret' = [tret EXCEPT ![th] = latest_events[twant[th]]]
    /\ tpc' = [tpc EXCEPT ![th] = "returned"]
    /\ UNCHANGED <<latest_events, current_block_height, logged_in, cv_owner, cv_waiters,
                   twant, hpc, hevent, delivered, stored>>
    /\ UNCHANGED signVars

\* the gdk delivers an event to callback_handler
Deliver(e) ==
    /\ hpc = "idle"
    /\ delivered < MaxEvents
    /\ delivered' = delivered + 1
    /\ hevent' = e
    /\ hpc' = "try"
    /\ UNCHANGED <<latest_events, current_block_height, logged_in, cv_owner, cv_waiters,
                   tpc, twant, tret, stored>>
    /\ UNCHANGED signVars

\* callback_handler up to the store into latest_events (no lock is held); an
\* exception skips the store and the notify
HandlerStore ==
    /\ hpc = "try"
    /\ logged_in' = IF hevent.event = "network" /\ hevent.body.login_required
                    THEN FALSE ELSE logged_in
    /\ IF handler_raises(hevent)
       THEN /\ hpc' = "idle"
            /\ UNCHANGED <<latest_events, current_block_height, stored>>
       ELSE /\ current_block_height' = IF hevent.event = "block"
                                       THEN hevent.body.block_height
                                       ELSE current_block_height
            /\ latest_events' = store_event(latest_events, hevent.event, hevent.body)
            /\ stored' = stored \cup {<<hevent.event, hevent.body>>}
            /\ hpc' = "notify"
    /\ UNCHANGED <<cv_owner, cv_waiters, tpc, twant, tret, hevent, delivered>>
    /\ UNCHANGED signVars

\* the threads event_cv.notify() wakes: the first waiter of the queue
notified(waiters) == IF waiters = <<>> THEN {} ELSE {Head(waiters)}

\* with self.event_cv: self.event_cv.notify(), then the end of the handler
HandlerNotify ==
    /\ hpc = "notify"
    /\ cv_owner = 0
    /\ LET woken == notified(cv_waiters)
       IN  /\ tpc' = [th \in Threads |-> IF th \in woken THEN "notified" ELSE tpc[th]]
           /\ cv_waiters' = SelectSeq(cv_waiters, LAMBDA th : th \notin woken)
    /\ hpc' = "idle"
    /\ UNCHANGED <<latest_events, current_block_height, logged_in, cv_owner,
                   twant, tret, hevent, delivered, stored>>
    /\ UNCHANGED signVars

SessNext ==
    \/ \E th \in Threads, t \in EventTypes : Call(th, t)
    \/ \E th \in Threads : Acquire(th)
    \/ \E th \in Threads : WaitFor(th)
    \/ \E th \in Threads : Wake(th)
    \/ \E th \in Threads : Return(th)
    \/ \E e \in Events : Deliver(e)
    \/ HandlerStore
    \/ HandlerNotify

SessSpec == SessInit /\ [][SessNext]_vars

\* every thread that can run does run, and callback_handler runs to its end; no
\* further call and no further event is promised
SessFair ==
    /\ SessSpec
    /\ \A th \in Threads : WF_vars(Acquire(th) \/ WaitFor(th) \/ Wake(th) \/ Return(th))
    /\ WF_vars(HandlerStore \/ HandlerNotify)

----------------------------------------------------------------------------
(* Properties of the signer *)

Inputs == details.signing_inputs

Outputs == details.transaction.transaction_outputs

IsSignTx == details.op = "sign_tx"

IsLiquidSignTx == IsSignTx /\ authenticator = "liquid"

\* the signature term inside an entry of signatures
SigTerm(entry) == entry[1].hex[1].der

\* the sighash term a signature covers
SigHashOf(entry) == SigTerm(entry).hash[1]

\* the commitment term inside an entry of signer_commitments
CommitTerm(entry) == entry[1].hex[1]

NonSegwitAt(i) == Inputs[i].script_type \notin SEGWIT_SCRIPT_TYPES

\* C1: a sign_tx request with a non-segwit input at any position never returns:
\* the call fails and hands the caller no signature and no signer commitment,
\* whatever was computed for the inputs before it.
C1_AllOrNothing ==
    (IsSignTx /\ \E i \in 1..Len(Inputs) : NonSegwitAt(i)) =>
        /\ pc # "returned"
        /\ result.status # "returned"
        /\ result.keys = {}
        /\ result.signatures = <<>>
        /\ result.signer_commitments = <<>>

\* the call failed on a non-segwit last input after an earlier input was signed
C1_Witness ==
    /\ IsSignTx
    /\ pc = "raised"
    /\ result.status = "NotImplementedError"
    /\ Len(Inputs) = 2
    /\ NonSegwitAt(2)
    /\ Len(signatures) = 1
    /\ Len(signer_commitments) = 1

\* C2: a returned sign_tx result has one signature per input, entry i made with
\* the key of input i's user_path over the sighash of index i and input i's
\* script, ending in the sighash byte; with AE the commitments are a parallel
\* list, entry i made with the same key and sighash and input i's host commitment.
C2_SignaturesInInputOrder ==
    (IsSignTx /\ pc = "returned") =>
        /\ Len(result.signatures) = Len(Inputs)
        /\ \A i \in 1..Len(Inputs) :
              /\ SigTerm(result.signatures[i]).privkey.priv = derive_key(Inputs[i].user_path)
              /\ SigHashOf(result.signatures[i]).index = i - 1
              /\ SigHashOf(result.signatures[i]).script = FromHex(Inputs[i].prevout_script)
              /\ Len(result.signatures[i][1].hex) = 2
              /\ result.signatures[i][1].hex[2] = WALLY_SIGHASH_ALL
        /\ details.use_ae_protocol =>
              /\ Len(result.signer_commitments) = Len(Inputs)
              /\ \A i \in 1..Len(Inputs) :
                    /\ CommitTerm(result.signer_commitments[i]).privkey
                          = SigTerm(result.signatures[i]).privkey
                    /\ CommitTerm(result.signer_commitments[i]).hash
                          = SigTerm(result.signatures[i]).hash
                    /\ CommitTerm(result.signer_commitments[i]).host_commitment
                          = FromHex(Inputs[i].ae_host_commitment)

\* an AE call over two inputs of different paths returned
C2_Witness ==
    /\ IsSignTx
    /\ pc = "returned"
    /\ details.use_ae_protocol
    /\ Len(Inputs) = 2
    /\ Inputs[1].user_path # Inputs[2].user_path
    /\ Len(result.signer_commitments) = 2

SelectedMode == IF details.use_ae_protocol THEN "ae" ELSE "ec"

\* C3: every signature of a call is of the mode use_ae_protocol selects: with AE
\* each is an AE signature paired with its AE commitment and the result carries
\* the commitment field, without AE each is a plain signature and the result
\* has no commitment field.
C3_ModeAsSelected ==
    /\ IsSignTx =>
          /\ \A i \in 1..Len(signatures) : SigTerm(signatures[i]).sig = SelectedMode
          /\ Len(signer_commitments) = IF details.use_ae_protocol THEN Len(signatures) ELSE 0
          /\ \A i \in 1..Len(signer_commitments) :
                CommitTerm(signer_commitments[i]).commit = "ae"
    /\ (IsSignTx /\ pc = "returned") =>
          /\ result.signatures = signatures
          /\ result.signer_commitments = signer_commitments
          /\ ("signer_commitments" \in result.keys) <=> details.use_ae_protocol
    /\ (details.op = "sign_message" /\ pc = "returned") =>
          /\ SigTerm(result.signature).sig = SelectedMode
          /\ ("signer_commitment" \in result.keys) <=> details.use_ae_protocol
          /\ IF details.use_ae_protocol
             THEN /\ CommitTerm(result.signer_commitment).commit = "ae"
                  /\ CommitTerm(result.signer_commitment).hash
                        = SigTerm(result.signature).hash
             ELSE result.signer_commitment = <<>>

\* an AE sign_message call returned
C3_Witness ==
    /\ details.op = "sign_message"
    /\ pc = "returned"
    /\ details.use_ae_protocol
    /\ "signer_commitment" \in result.keys

\* output slot i of the wally tx holds the commitments returned for output i
CommitmentsWritten(i) ==
    /\ Len(blind_retval.asset_commitments) = Len(Outputs)
    /\ Len(wally_tx.outputs[i].asset) = 1
    /\ Len(wally_tx.outputs[i].value) = 1
    /\ blind_retval.asset_commitments[i] = SymHex(wally_tx.outputs[i].asset)
    /\ blind_retval.value_commitments[i] = SymHex(wally_tx.outputs[i].value)

\* C4: in a confidential sign_tx call every sighash is computed over the
\* transaction as it is once blinding has written the commitments of every
\* non-fee output, and that transaction does not change while inputs are signed.
C4_BlindingBeforeSigning ==
    (IsLiquidSignTx /\ Len(signatures) >= 1) =>
        /\ \A i \in 1..Len(Outputs) : ~Outputs[i].is_fee => CommitmentsWritten(i)
        /\ \A s \in 1..Len(signatures) : SigHashOf(signatures[s]).tx = wally_tx

\* a confidential call signed two inputs over a transaction with a blinded output
C4_Witness ==
    /\ IsLiquidSignTx
    /\ pc = "returned"
    /\ Len(signatures) = 2
    /\ \E i \in 1..Len(Outputs) : ~Outputs[i].is_fee

\* the utxos whose blinding factors enter the balance
BlindingUtxos == blinding_utxos(details.transaction)

\* a blinding factor read back from its display-order hex
ScalarOf(hex) == BytesToInt(Reverse(FromHex(hex)))

InVbf == [i \in 1..Len(BlindingUtxos) |-> ScalarOf(BlindingUtxos[i].amountblinder)]

OutVbf ==
    [i \in 1..Len(tx_outs) |->
        IF tx_outs[i].is_fee THEN 0 ELSE ScalarOf(tx_outs[i].amountblinder)]

InBlind ==
    [i \in 1..Len(BlindingUtxos) |->
        BlindingUtxos[i].satoshi * ScalarOf(BlindingUtxos[i].assetblinder)
          + ScalarOf(BlindingUtxos[i].amountblinder)]

OutBlind ==
    [i \in 1..Len(tx_outs) |->
        IF tx_outs[i].is_fee THEN 0
        ELSE tx_outs[i].satoshi * ScalarOf(tx_outs[i].assetblinder)
               + ScalarOf(tx_outs[i].amountblinder)]

LastBlinded(i) == ~Outputs[i].is_fee /\ \A j \in (i + 1)..Len(Outputs) : Outputs[j].is_fee

\* C6: a returned confidential result has four lists as long as
\* transaction_outputs; a fee output's entries are empty strings, a non-fee
\* output's entries are its own blinders and the commitments made from them,
\* and the last blinded output's amountblinder is the computed final factor.
C6_FourParallelLists ==
    (IsLiquidSignTx /\ pc = "returned") =>
        LET b == result.blinding
        IN  /\ BLINDING_KEYS \subseteq result.keys
            /\ Len(b.assetblinders) = Len(Outputs)
            /\ Len(b.amountblinders) = Len(Outputs)
            /\ Len(b.asset_commitments) = Len(Outputs)
            /\ Len(b.value_commitments) = Len(Outputs)
            /\ \A i \in 1..Len(Outputs) :
                  IF Outputs[i].is_fee
                  THEN /\ b.assetblinders[i] = <<>>
                       /\ b.amountblinders[i] = <<>>
                       /\ b.asset_commitments[i] = <<>>
                       /\ b.value_commitments[i] = <<>>
                  ELSE /\ Len(b.assetblinders[i]) = 2 * BFLen
                       /\ Len(b.amountblinders[i]) = 2 * BFLen
                       /\ Len(b.asset_commitments[i]) = 1
                       /\ Len(b.value_commitments[i]) = 1
                       /\ CommitTerm(b.asset_commitments[i]).generator
                             = Reverse(FromHex(Outputs[i].asset_id))
                       /\ CommitTerm(b.asset_commitments[i]).abf
                             = Reverse(FromHex(b.assetblinders[i]))
                       /\ CommitTerm(b.value_commitments[i]).commitment = Outputs[i].satoshi
                       /\ CommitTerm(b.value_commitments[i]).vbf
                             = Reverse(FromHex(b.amountblinders[i]))
                       /\ SymHex(CommitTerm(b.value_commitments[i]).generator)
                             = b.asset_commitments[i]
                       /\ LastBlinded(i) =>
                             b.amountblinders[i] = Hex(Reverse(final_vbf_call.final_vbf))

\* a confidential call over a fee output and a blinded output returned
C6_Witness ==
    /\ IsLiquidSignTx
    /\ pc = "returned"
    /\ Len(Outputs) = 2
    /\ \E i \in 1..2 : Outputs[i].is_fee
    /\ \E i \in 1..2 : ~Outputs[i].is_fee /\ result.blinding.amountblinders[i] # <<>>

\* C7: the confidential sighash of input i covers input i's commitment exactly
\* when that input is confidential and the explicit encoding of its amount
\* exactly when it is not.
C7_ValueFormPerInput ==
    IsLiquidSignTx =>
        \A i \in 1..Len(signatures) :
            SigHashOf(signatures[i]).value =
                IF Inputs[i].confidential THEN FromHex(Inputs[i].commitment)
                ELSE tx_confidential_value_from_satoshi(Inputs[i].satoshi)

\* a confidential call signed a confidential and a non-confidential input
C7_Witness ==
    /\ IsLiquidSignTx
    /\ pc = "returned"
    /\ Len(signatures) = 2
    /\ Inputs[1].confidential # Inputs[2].confidential

\* blinding has run to its end
BlindingDone == pc \in {"sign", "returned"} \/ result.status = "NotImplementedError"

\* C8: after blinding, slot i of the wally tx holds the commitments of the
\* non-fee output at position i of transaction_outputs; a fee output's slot, the
\* number of slots and the flags are as tx_from_hex built them.
C8_CommitmentsByPosition ==
    (IsLiquidSignTx /\ BlindingDone) =>
        LET parsed == tx_from_hex(details.transaction.transaction,
                                  {TX_FLAG_USE_WITNESS, TX_FLAG_USE_ELEMENTS})
        IN  /\ wally_tx.flags = parsed.flags
            /\ Len(wally_tx.outputs) = Len(Outputs)
            /\ \A i \in 1..Len(Outputs) :
                  IF Outputs[i].is_fee
                  THEN /\ Len(wally_tx.outputs[i].asset) = Len(parsed.outputs[i].asset)
                       /\ wally_tx.outputs[i] = parsed.outputs[i]
                  ELSE /\ CommitmentsWritten(i)
                       /\ wally_tx.outputs[i].value[1].commitment = Outputs[i].satoshi
                       /\ wally_tx.outputs[i].value[1].vbf
                             = Reverse(FromHex(tx_outs[i].amountblinder))
                       /\ wally_tx.outputs[i].asset[1].abf
                             = Reverse(FromHex(tx_outs[i].assetblinder))

\* blinding ended on a transaction whose fee output comes before a blinded one
C8_Witness ==
    /\ IsLiquidSignTx
    /\ pc = "sign"
    /\ Len(Outputs) = 2
    /\ Outputs[1].is_fee
    /\ ~Outputs[2].is_fee

\* the endpoint set is empty, or no non-fee output can take the final factor
Unbalanceable ==
    \/ BlindingUtxos = <<>> /\ blinded_outputs(Outputs) = <<>>
    \/ blinded_outputs(Outputs) = <<>>

\* the balancing function was called with fewer value blinding factors than
\* there are inputs: an input's factor was dropped
InputFactorDropped ==
    final_vbf_call.made /\ final_vbf_call.vbf_endpoints < final_vbf_call.num_inputs

\* C9: a confidential sign_tx call whose blinding cannot be balanced (no
\* endpoint, or no non-fee output) fails before any input is signed, returns
\* neither blinding lists nor signatures, and never calls the balancing
\* function with an input's value blinding factor dropped.
C9_UnbalanceableIsFatal ==
    (IsLiquidSignTx /\ Unbalanceable) =>
        /\ pc \notin {"commit", "sign", "returned"}
        /\ result.status # "returned"
        /\ signatures = <<>>
        /\ blind_retval = NoBlinding
        /\ ~InputFactorDropped

\* the outward part of C9: the call fails before blinding ends and before any
\* input is signed, and returns nothing
C9_FailsWithoutResult ==
    (IsLiquidSignTx /\ Unbalanceable) =>
        /\ pc \in {"call", "balance", "raised"}
        /\ result.status \in {"none", "ValueError", "IndexError"}
        /\ result.keys = {}
        /\ signatures = <<>>
        /\ blind_retval = NoBlinding

----------------------------------------------------------------------------
(* Properties of the session *)

Blocked(th) == tpc[th] \in {"acquire", "check", "waiting", "notified"}

\* every thread has called getlatestevent, each with its own event type
OwnTypes ==
    /\ \A a \in Threads : twant[a] # "none"
    /\ \A a, b \in Threads : a # b => twant[a] # twant[b]

\* C10: once an event of a thread's type is stored, the thread blocked in
\* getlatestevent for that type eventually returns, with no further event.
C10_NoLostWakeup ==
    \A th \in Threads :
        [](( OwnTypes /\ Blocked(th) /\ twant[th] \in DOMAIN latest_events)
              => <>(tpc[th] = "returned"))

\* the safety part of C10: a thread returns only a body that was stored for
\* its event type
C10_ReturnsStoredBody ==
    \A th \in Threads : tpc[th] = "returned" => <<twant[th], tret[th]>> \in stored

====
